---------------------------- MODULE Spec2Model ----------------------------
(***************************************************************************)
(* Model of the Chanuka pattern scanner                                    *)
(* (src/scripts/archived-analysis-tools/chanuka_error_extractor.py).       *)
(*                                                                         *)
(* Text is modelled character by character: a Python str is a sequence of  *)
(* one-character strings.  Regular expressions are terms evaluated by a    *)
(* small matcher (Ends/Search) with the semantics of re.search for the     *)
(* constructs the rule table uses.  The file tree is an input chosen in    *)
(* Init from a bounded universe of paths and file texts.                   *)
(***************************************************************************)
EXTENDS Integers, Sequences, FiniteSets, TLC

(***************************************************************************)
(* Characters and strings                                                  *)
(***************************************************************************)
LowerLetters ==
    << "a", "b", "c", "d", "e", "f", "g", "h", "i", "j", "k", "l", "m",
       "n", "o", "p", "q", "r", "s", "t", "u", "v", "w", "x", "y", "z" >>

UpperLetters ==
    << "A", "B", "C", "D", "E", "F", "G", "H", "I", "J", "K", "L", "M",
       "N", "O", "P", "Q", "R", "S", "T", "U", "V", "W", "X", "Y", "Z" >>

DigitChars ==
    << "0", "1", "2", "3", "4", "5", "6", "7", "8", "9" >>

Range(f) == { f[i] : i \in DOMAIN f }

\* \d, \s and \w of Python's re on the characters the texts use
Digits == Range(DigitChars)

Whitespace == { " ", "\t", "\n", "\r", "\f" }

WordChars == Range(LowerLetters) \cup Range(UpperLetters) \cup Digits \cup { "_" }

\* The characters of path strings in code-point order (str comparison in
\* sorted() compares code points).
CodePointOrder ==
    << ".", "/" >> \o DigitChars \o UpperLetters \o << "_" >> \o LowerLetters

Ord(c) == CHOOSE i \in DOMAIN CodePointOrder : CodePointOrder[i] = c

\* str.lower() on one character
LowerChar(c) ==
    IF c \in Range(UpperLetters)
    THEN LowerLetters[CHOOSE i \in DOMAIN UpperLetters : UpperLetters[i] = c]
    ELSE c

Lower(s) == [ i \in DOMAIN s |-> LowerChar(s[i]) ]

\* Python's s < t on strings
RECURSIVE StrLess(_, _)
StrLess(s, t) ==
    IF t = << >> THEN FALSE
    ELSE IF s = << >> THEN TRUE
    ELSE IF Head(s) # Head(t) THEN Ord(Head(s)) < Ord(Head(t))
    ELSE StrLess(Tail(s), Tail(t))

\* s[:n]
Take(s, n) == SubSeq(s, 1, IF Len(s) < n THEN Len(s) ELSE n)

\* str.strip(): leading and trailing whitespace removed
RECURSIVE LStrip(_)
LStrip(s) ==
    IF s # << >> /\ Head(s) \in Whitespace THEN LStrip(Tail(s)) ELSE s

RECURSIVE RStrip(_)
RStrip(s) ==
    IF s # << >> /\ s[Len(s)] \in Whitespace
    THEN RStrip(SubSeq(s, 1, Len(s) - 1))
    ELSE s

Strip(s) == RStrip(LStrip(s))

\* str.startswith(prefix)
StartsWith(s, prefix) ==
    Len(prefix) <= Len(s) /\ SubSeq(s, 1, Len(prefix)) = prefix

\* str.split(sep) for a one-character separator: the pieces between
\* consecutive separators, always at least one piece
Split(s, sep) ==
    LET at == { i \in DOMAIN s : s[i] = sep }
        nth(k) == IF k = 0 THEN 0
                  ELSE IF k > Cardinality(at) THEN Len(s) + 1
                  ELSE CHOOSE p \in at : Cardinality({ q \in at : q < p }) = k - 1
    IN  [ k \in 1..(Cardinality(at) + 1) |-> SubSeq(s, nth(k - 1) + 1, nth(k) - 1) ]

\* sep.join(parts)
RECURSIVE Join(_, _)
Join(parts, sep) ==
    IF parts = << >> THEN << >>
    ELSE IF Len(parts) = 1 THEN parts[1]
    ELSE parts[1] \o << sep >> \o Join(Tail(parts), sep)

(***************************************************************************)
(* Regular expressions: the terms re.compile builds for the rule table,    *)
(* and re.search on them.  Ends(re, s, i) is the set of positions at which *)
(* a match of re that starts at position i of s can end (positions are     *)
(* 1-based indices of the next character to read).                         *)
(***************************************************************************)
Lit(s) == [ t |-> "lit", s |-> s ]

In(S) == [ t |-> "in", S |-> S, neg |-> FALSE ]

NotIn(S) == [ t |-> "in", S |-> S, neg |-> TRUE ]

AnyChar == [ t |-> "any" ]

WordBoundary == [ t |-> "bnd" ]

Cat(xs) == [ t |-> "cat", xs |-> xs ]

Alt(xs) == [ t |-> "alt", xs |-> xs ]

RepInf(lo, x) == [ t |-> "rep", lo |-> lo, x |-> x ]

NotAhead(x) == [ t |-> "nla", x |-> x ]

NotBehind(x) == [ t |-> "nlb", x |-> x ]

re_error == [ t |-> "error" ]

IsWordAt(s, i) == i >= 1 /\ i <= Len(s) /\ s[i] \in WordChars

RECURSIVE Ends(_, _, _)
RECURSIVE EndsCat(_, _, _, _)
RECURSIVE EndsRep(_, _, _, _, _, _)

Ends(re, s, i) ==
    CASE re.t = "lit" ->
           IF i + Len(re.s) - 1 <= Len(s) /\ SubSeq(s, i, i + Len(re.s) - 1) = re.s
           THEN { i + Len(re.s) } ELSE { }
      [] re.t = "in" ->
           IF i <= Len(s) /\ ((s[i] \in re.S) # re.neg) THEN { i + 1 } ELSE { }
      [] re.t = "any" ->
           IF i <= Len(s) /\ s[i] # "\n" THEN { i + 1 } ELSE { }
      [] re.t = "bnd" ->
           IF IsWordAt(s, i - 1) # IsWordAt(s, i) THEN { i } ELSE { }
      [] re.t = "cat" -> EndsCat(re.xs, 1, s, { i })
      [] re.t = "alt" -> UNION { Ends(re.xs[k], s, i) : k \in DOMAIN re.xs }
      [] re.t = "rep" -> EndsRep(re.x, re.lo, s, { i }, 0, { })
      [] re.t = "nla" -> IF Ends(re.x, s, i) = { } THEN { i } ELSE { }
      [] re.t = "nlb" ->
           IF \E j \in 1..i : i \in Ends(re.x, s, j) THEN { } ELSE { i }

EndsCat(xs, k, s, from) ==
    IF k > Len(xs) \/ from = { } THEN from
    ELSE EndsCat(xs, k + 1, s, UNION { Ends(xs[k], s, j) : j \in from })

\* cur: the positions reached after exactly n repetitions and not seen
\* before; acc: the positions reached after lo or more repetitions.
EndsRep(x, lo, s, cur, n, acc) ==
    LET acc2 == IF n >= lo THEN acc \cup cur ELSE acc
        nxt == UNION { Ends(x, s, j) : j \in cur }
        fresh == IF n >= lo THEN nxt \ acc2 ELSE nxt
    IN  IF fresh = { } THEN acc2 ELSE EndsRep(x, lo, s, fresh, n + 1, acc2)

\* compiled.search(line) is truthy
Search(re, s) == \E i \in 1..(Len(s) + 1) : Ends(re, s, i) # { }

(***************************************************************************)
(* The rule table.  A Pattern carries its regex source text and, as        *)
(* compiled, the term re.compile builds for that text (Python's own parse  *)
(* of it), or re_error where re.compile raises re.error and __post_init__  *)
(* leaves compiled = None.                                                 *)
(***************************************************************************)
Pattern(name, regex, severity, message, compiled) ==
    [ name |-> name, regex |-> regex, severity |-> severity,
      message |-> message, compiled |-> compiled ]

typescript_patterns ==
    << Pattern("any_usage", ":\\s*any\\b|<any>|as\\s+any\\b",
               "warning", "Usage of \"any\" type reduces type safety",
               Alt(<<Cat(<<Lit(<<":">>), RepInf(0, In(Whitespace)), Lit(<<"a",
               "n", "y">>), WordBoundary>>), Lit(<<"<", "a", "n", "y", ">">>),
               Cat(<<Lit(<<"a", "s">>), RepInf(1, In(Whitespace)), Lit(<<"a",
               "n", "y">>), WordBoundary>>)>>)),
       Pattern("ts_ignore", "@ts-ignore",
               "warning", "TypeScript error suppression found",
               Lit(<<"@", "t", "s", "-", "i", "g", "n", "o", "r", "e">>)),
       Pattern("ts_nocheck", "@ts-nocheck",
               "error", "Entire file TypeScript checking disabled",
               Lit(<<"@", "t", "s", "-", "n", "o", "c", "h", "e", "c", "k">>)),
       Pattern("ts_expect_error", "@ts-expect-error(?!\\s*:\\s*.+)",
               "info", "Expected TypeScript error (consider adding comment)",
               Cat(<<Lit(<<"@", "t", "s", "-", "e", "x", "p", "e", "c", "t",
               "-", "e", "r", "r", "o", "r">>), NotAhead(Cat(<<RepInf(0,
               In(Whitespace)), Lit(<<":">>), RepInf(0, In(Whitespace)),
               RepInf(1, AnyChar)>>))>>)),
       Pattern("non_null_assertion", "!\\s*[;\\.\\[\\(]",
               "warning", "Non-null assertion operator (!) used - ensure safety",
               Cat(<<Lit(<<"!">>), RepInf(0, In(Whitespace)), In({";", ".",
               "[", "("})>>)),
       Pattern("unknown_type", ":\\s*unknown\\b",
               "info", "Unknown type used (safer than any, but consider specifics)",
               Cat(<<Lit(<<":">>), RepInf(0, In(Whitespace)), Lit(<<"u", "n",
               "k", "n", "o", "w", "n">>), WordBoundary>>)),
       Pattern("type_assertion", "as\\s+\\w+",
               "info", "Type assertion used - verify correctness",
               Cat(<<Lit(<<"a", "s">>), RepInf(1, In(Whitespace)), RepInf(1,
               In(WordChars))>>)) >>

react_patterns ==
    << Pattern("missing_key_prop", "\\.map\\([^)]*\\)\\s*=>\\s*<\\w+[^>]*(?<!key=)[^>]*>",
               "warning", "Missing \"key\" prop in mapped component",
               Cat(<<Lit(<<".", "m", "a", "p", "(">>), RepInf(0,
               NotIn({")"})), Lit(<<")">>), RepInf(0, In(Whitespace)),
               Lit(<<"=", ">">>), RepInf(0, In(Whitespace)), Lit(<<"<">>),
               RepInf(1, In(WordChars)), RepInf(0, NotIn({">"})),
               NotBehind(Lit(<<"k", "e", "y", "=">>)), RepInf(0,
               NotIn({">"})), Lit(<<">">>)>>)),
       Pattern("inline_function", "(onClick|onChange|onSubmit|onBlur|onFocus)=\\{[^}]*=>",
               "info", "Inline function in JSX (may cause unnecessary re-renders)",
               Cat(<<Cat(<<Lit(<<"o", "n">>), Alt(<<Lit(<<"C", "l", "i", "c",
               "k">>), Lit(<<"C", "h", "a", "n", "g", "e">>), Lit(<<"S", "u",
               "b", "m", "i", "t">>), Lit(<<"B", "l", "u", "r">>), Lit(<<"F",
               "o", "c", "u", "s">>)>>)>>), Lit(<<"=", "{">>), RepInf(0,
               NotIn({"}"})), Lit(<<"=", ">">>)>>)),
       Pattern("direct_state_mutation", "(state|this\\.state)\\.\\w+\\s*=(?!=)",
               "error", "Direct state mutation detected - use setState",
               Cat(<<Alt(<<Lit(<<"s", "t", "a", "t", "e">>), Lit(<<"t", "h",
               "i", "s", ".", "s", "t", "a", "t", "e">>)>>), Lit(<<".">>),
               RepInf(1, In(WordChars)), RepInf(0, In(Whitespace)),
               Lit(<<"=">>), NotAhead(Lit(<<"=">>))>>)),
       Pattern("empty_deps", "useEffect\\([^)]+,\\s*\\[\\s*\\]\\s*\\)",
               "info", "useEffect with empty dependency array (runs once on mount)",
               Cat(<<Lit(<<"u", "s", "e", "E", "f", "f", "e", "c", "t",
               "(">>), RepInf(1, NotIn({")"})), Lit(<<",">>), RepInf(0,
               In(Whitespace)), Lit(<<"[">>), RepInf(0, In(Whitespace)),
               Lit(<<"]">>), RepInf(0, In(Whitespace)), Lit(<<")">>)>>)),
       Pattern("missing_deps", "useEffect\\([^)]+\\)\\s*(?!,)",
               "warning", "useEffect without dependency array (runs on every render)",
               Cat(<<Lit(<<"u", "s", "e", "E", "f", "f", "e", "c", "t",
               "(">>), RepInf(1, NotIn({")"})), Lit(<<")">>), RepInf(0,
               In(Whitespace)), NotAhead(Lit(<<",">>))>>)),
       Pattern("useState_initial", "useState\\(\\s*\\{|\\useState\\(\\s*\\[",
               "info", "useState with object/array - ensure intentional",
               re_error),
       Pattern("dangerously_set", "dangerouslySetInnerHTML",
               "warning", "dangerouslySetInnerHTML used - XSS risk",
               Lit(<<"d", "a", "n", "g", "e", "r", "o", "u", "s", "l", "y",
               "S", "e", "t", "I", "n", "n", "e", "r", "H", "T", "M", "L">>)) >>

common_patterns ==
    << Pattern("TODO", "//\\s*TODO|/\\*\\s*TODO|#\\s*TODO",
               "warning", "TODO comment",
               Alt(<<Cat(<<Lit(<<"/", "/">>), RepInf(0, In(Whitespace)),
               Lit(<<"T", "O", "D", "O">>)>>), Cat(<<Lit(<<"/", "*">>),
               RepInf(0, In(Whitespace)), Lit(<<"T", "O", "D", "O">>)>>),
               Cat(<<Lit(<<"#">>), RepInf(0, In(Whitespace)), Lit(<<"T", "O",
               "D", "O">>)>>)>>)),
       Pattern("FIXME", "//\\s*FIXME|/\\*\\s*FIXME|#\\s*FIXME",
               "error", "FIXME comment",
               Alt(<<Cat(<<Lit(<<"/", "/">>), RepInf(0, In(Whitespace)),
               Lit(<<"F", "I", "X", "M", "E">>)>>), Cat(<<Lit(<<"/", "*">>),
               RepInf(0, In(Whitespace)), Lit(<<"F", "I", "X", "M", "E">>)>>),
               Cat(<<Lit(<<"#">>), RepInf(0, In(Whitespace)), Lit(<<"F", "I",
               "X", "M", "E">>)>>)>>)),
       Pattern("BUG", "//\\s*BUG|/\\*\\s*BUG|#\\s*BUG",
               "critical", "BUG comment",
               Alt(<<Cat(<<Lit(<<"/", "/">>), RepInf(0, In(Whitespace)),
               Lit(<<"B", "U", "G">>)>>), Cat(<<Lit(<<"/", "*">>), RepInf(0,
               In(Whitespace)), Lit(<<"B", "U", "G">>)>>), Cat(<<Lit(<<"#">>),
               RepInf(0, In(Whitespace)), Lit(<<"B", "U", "G">>)>>)>>)),
       Pattern("HACK", "//\\s*HACK|/\\*\\s*HACK|#\\s*HACK",
               "warning", "HACK comment",
               Alt(<<Cat(<<Lit(<<"/", "/">>), RepInf(0, In(Whitespace)),
               Lit(<<"H", "A", "C", "K">>)>>), Cat(<<Lit(<<"/", "*">>),
               RepInf(0, In(Whitespace)), Lit(<<"H", "A", "C", "K">>)>>),
               Cat(<<Lit(<<"#">>), RepInf(0, In(Whitespace)), Lit(<<"H", "A",
               "C", "K">>)>>)>>)),
       Pattern("XXX", "//\\s*XXX|/\\*\\s*XXX|#\\s*XXX",
               "warning", "XXX comment",
               Alt(<<Cat(<<Lit(<<"/", "/">>), RepInf(0, In(Whitespace)),
               Lit(<<"X", "X", "X">>)>>), Cat(<<Lit(<<"/", "*">>), RepInf(0,
               In(Whitespace)), Lit(<<"X", "X", "X">>)>>), Cat(<<Lit(<<"#">>),
               RepInf(0, In(Whitespace)), Lit(<<"X", "X", "X">>)>>)>>)),
       Pattern("console.log", "console\\.log\\(",
               "info", "Debug console.log",
               Lit(<<"c", "o", "n", "s", "o", "l", "e", ".", "l", "o", "g",
               "(">>)),
       Pattern("console.error", "console\\.error\\(",
               "info", "Console.error",
               Lit(<<"c", "o", "n", "s", "o", "l", "e", ".", "e", "r", "r",
               "o", "r", "(">>)),
       Pattern("debugger", "\\bdebugger\\b(?!:)",
               "warning", "Debugger statement",
               Cat(<<WordBoundary, Lit(<<"d", "e", "b", "u", "g", "g", "e",
               "r">>), WordBoundary, NotAhead(Lit(<<":">>))>>)),
       Pattern("alert", "\\balert\\s*\\(",
               "warning", "Alert statement",
               Cat(<<WordBoundary, Lit(<<"a", "l", "e", "r", "t">>), RepInf(0,
               In(Whitespace)), Lit(<<"(">>)>>)),
       Pattern("confirm", "\\bconfirm\\s*\\(",
               "warning", "Confirm dialog",
               Cat(<<WordBoundary, Lit(<<"c", "o", "n", "f", "i", "r", "m">>),
               RepInf(0, In(Whitespace)), Lit(<<"(">>)>>)),
       Pattern("eval", "\\beval\\s*\\(",
               "critical", "eval() used - security risk",
               Cat(<<WordBoundary, Lit(<<"e", "v", "a", "l">>), RepInf(0,
               In(Whitespace)), Lit(<<"(">>)>>)),
       Pattern("localStorage", "localStorage\\.(getItem|setItem|removeItem|clear)",
               "info", "Direct localStorage usage",
               Cat(<<Lit(<<"l", "o", "c", "a", "l", "S", "t", "o", "r", "a",
               "g", "e", ".">>), Alt(<<Lit(<<"g", "e", "t", "I", "t", "e",
               "m">>), Lit(<<"s", "e", "t", "I", "t", "e", "m">>), Lit(<<"r",
               "e", "m", "o", "v", "e", "I", "t", "e", "m">>), Lit(<<"c", "l",
               "e", "a", "r">>)>>)>>)),
       Pattern("sessionStorage", "sessionStorage\\.(getItem|setItem|removeItem|clear)",
               "info", "Direct sessionStorage usage",
               Cat(<<Lit(<<"s", "e", "s", "s", "i", "o", "n", "S", "t", "o",
               "r", "a", "g", "e", ".">>), Alt(<<Lit(<<"g", "e", "t", "I",
               "t", "e", "m">>), Lit(<<"s", "e", "t", "I", "t", "e", "m">>),
               Lit(<<"r", "e", "m", "o", "v", "e", "I", "t", "e", "m">>),
               Lit(<<"c", "l", "e", "a", "r">>)>>)>>)),
       Pattern("fetch_no_catch", "fetch\\([^)]+\\)(?!\\s*\\.catch|\\s*\\.then\\([^)]*,[^)]*\\))",
               "warning", "Fetch without error handling",
               Cat(<<Lit(<<"f", "e", "t", "c", "h", "(">>), RepInf(1,
               NotIn({")"})), Lit(<<")">>), NotAhead(Alt(<<Cat(<<RepInf(0,
               In(Whitespace)), Lit(<<".", "c", "a", "t", "c", "h">>)>>),
               Cat(<<RepInf(0, In(Whitespace)), Lit(<<".", "t", "h", "e", "n",
               "(">>), RepInf(0, NotIn({")"})), Lit(<<",">>), RepInf(0,
               NotIn({")"})), Lit(<<")">>)>>)>>))>>)),
       Pattern("async_no_await", "async\\s+function[^{]*{(?!.*await)",
               "warning", "Async function without await",
               Cat(<<Lit(<<"a", "s", "y", "n", "c">>), RepInf(1,
               In(Whitespace)), Lit(<<"f", "u", "n", "c", "t", "i", "o",
               "n">>), RepInf(0, NotIn({"{"})), Lit(<<"{">>),
               NotAhead(Cat(<<RepInf(0, AnyChar), Lit(<<"a", "w", "a", "i",
               "t">>)>>))>>)),
       Pattern("empty_catch", "catch\\s*\\([^)]*\\)\\s*{\\s*}",
               "warning", "Empty catch block - handle errors properly",
               Cat(<<Lit(<<"c", "a", "t", "c", "h">>), RepInf(0,
               In(Whitespace)), Lit(<<"(">>), RepInf(0, NotIn({")"})),
               Lit(<<")">>), RepInf(0, In(Whitespace)), Lit(<<"{">>),
               RepInf(0, In(Whitespace)), Lit(<<"}">>)>>)) >>

import_patterns ==
    << Pattern("wildcard_import", "import\\s+\\*\\s+as\\s+\\w+\\s+from",
               "warning", "Wildcard import (affects tree-shaking)",
               Cat(<<Lit(<<"i", "m", "p", "o", "r", "t">>), RepInf(1,
               In(Whitespace)), Lit(<<"*">>), RepInf(1, In(Whitespace)),
               Lit(<<"a", "s">>), RepInf(1, In(Whitespace)), RepInf(1,
               In(WordChars)), RepInf(1, In(Whitespace)), Lit(<<"f", "r", "o",
               "m">>)>>)),
       Pattern("deep_relative", "from\\s+[\\'\"](\\.\\./){4,}",
               "warning", "Deep relative import (consider path alias)",
               Cat(<<Lit(<<"f", "r", "o", "m">>), RepInf(1, In(Whitespace)),
               In({"'", "\""}), RepInf(4, Lit(<<".", ".", "/">>))>>)),
       Pattern("unused_import_likely", "import\\s+{[^}]{80,}}\\s+from",
               "info", "Large import statement - verify all are used",
               Cat(<<Lit(<<"i", "m", "p", "o", "r", "t">>), RepInf(1,
               In(Whitespace)), Lit(<<"{">>), RepInf(80, NotIn({"}"})),
               Lit(<<"}">>), RepInf(1, In(Whitespace)), Lit(<<"f", "r", "o",
               "m">>)>>)),
       Pattern("require_usage", "\\brequire\\s*\\(",
               "info", "CommonJS require() in modern codebase",
               Cat(<<WordBoundary, Lit(<<"r", "e", "q", "u", "i", "r", "e">>),
               RepInf(0, In(Whitespace)), Lit(<<"(">>)>>)) >>

(***************************************************************************)
(* Paths.  A path is the sequence of its components; NameChars spells a    *)
(* component, so that str(path), Path.suffix and str comparison work on    *)
(* characters.                                                            *)
(***************************************************************************)
NameChars(n) ==
    CASE n = "proj" -> <<"p", "r", "o", "j">>
      [] n = "client" -> <<"c", "l", "i", "e", "n", "t">>
      [] n = "src" -> <<"s", "r", "c">>
      [] n = "server" -> <<"s", "e", "r", "v", "e", "r">>
      [] n = "shared" -> <<"s", "h", "a", "r", "e", "d">>
      [] n = "lib" -> <<"l", "i", "b">>
      [] n = "node_modules" -> <<"n", "o", "d", "e", "_", "m", "o", "d", "u", "l", "e", "s">>
      [] n = "dist" -> <<"d", "i", "s", "t">>
      [] n = "index.ts" -> <<"i", "n", "d", "e", "x", ".", "t", "s">>
      [] n = "util.js" -> <<"u", "t", "i", "l", ".", "j", "s">>
      [] n = "m.ts" -> <<"m", ".", "t", "s">>
      [] n = "App.TSX" -> <<"A", "p", "p", ".", "T", "S", "X">>
      [] n = "out.js" -> <<"o", "u", "t", ".", "j", "s">>
      [] n = "notes.md" -> <<"n", "o", "t", "e", "s", ".", "m", "d">>
      [] n = "api.ts" -> <<"a", "p", "i", ".", "t", "s">>
      [] n = "ui.jsx" -> <<"u", "i", ".", "j", "s", "x">>
      [] n = "types.ts" -> <<"t", "y", "p", "e", "s", ".", "t", "s">>
      [] n = "other" -> <<"o", "t", "h", "e", "r">>
      [] n \in { LowerLetters[i] \o ".ts" : i \in DOMAIN LowerLetters } ->
           << CHOOSE c \in Range(LowerLetters) : n = c \o ".ts", ".", "t", "s" >>

(***************************************************************************)
(* File texts the tree can hold: the characters f.read() returns, that is, *)
(* after text mode has turned every line ending into "\n".                  *)
(***************************************************************************)
Pad(c, n) == [ i \in 1..n |-> c ]

NL == << "\n" >>

Text(id) ==
    CASE id = "scenario" ->
           \* 'const x: any = 1;'
           << "c", "o", "n", "s", "t", " ", "x", ":", " ", "a", "n", "y", " ",
              "=", " ", "1", ";" >> \o NL \o
           \* '// TODO refactor'
           << "/", "/", " ", "T", "O", "D", "O", " ", "r", "e", "f", "a", "c",
              "t", "o", "r" >> \o NL \o
           \* ''
           << >>
      [] id = "comments" ->
           \* '// const any = 5 as any'
           << "/", "/", " ", "c", "o", "n", "s", "t", " ", "a", "n", "y", " ",
              "=", " ", "5", " ", "a", "s", " ", "a", "n", "y" >> \o NL \o
           \* '/* eval(x) */'
           << "/", "*", " ", "e", "v", "a", "l", "(", "x", ")", " ", "*", "/" >> \o NL \o
           \* '  * alert(1)'
           << " ", " ", "*", " ", "a", "l", "e", "r", "t", "(", "1", ")" >> \o NL \o
           \* '// TODO fix this'
           << "/", "/", " ", "T", "O", "D", "O", " ", "f", "i", "x", " ", "t",
              "h", "i", "s" >> \o NL \o
           \* '// TODO // HACK'
           << "/", "/", " ", "T", "O", "D", "O", " ", "/", "/", " ", "H", "A",
              "C", "K" >> \o NL \o
           \* 'foo as any; // BUG'
           << "f", "o", "o", " ", "a", "s", " ", "a", "n", "y", ";", " ", "/",
              "/", " ", "B", "U", "G" >>
      [] id = "react" ->
           \* '<div dangerouslySetInnerHTML={x} onClick={() => go()} />'
           << "<", "d", "i", "v", " ", "d", "a", "n", "g", "e", "r", "o", "u",
              "s", "l", "y", "S", "e", "t", "I", "n", "n", "e", "r", "H", "T",
              "M", "L", "=", "{", "x", "}", " ", "o", "n", "C", "l", "i", "c",
              "k", "=", "{", "(", ")", " ", "=", ">", " ", "g", "o", "(", ")",
              "}", " ", "/", ">" >> \o NL \o
           \* 'this.state.n = 1;\t'
           << "t", "h", "i", "s", ".", "s", "t", "a", "t", "e", ".", "n", " ",
              "=", " ", "1", ";", "\t" >> \o NL \o
           \* 'useState({ n: 1 });'
           << "u", "s", "e", "S", "t", "a", "t", "e", "(", "{", " ", "n", ":",
              " ", "1", " ", "}", ")", ";" >>
      [] id = "clean" ->
           \* 'let y = 2;'
           << "l", "e", "t", " ", "y", " ", "=", " ", "2", ";" >>
      [] id = "long" ->
           \* a 600-character line, a 500-character line (498 once stripped),
           \* and a short one
           <<"e", "v", "a", "l", "(", "1", ")", ";">> \o Pad("x", 592) \o NL \o
           <<" ", " ", "e", "v", "a", "l", "(", "2", ")", ";">> \o Pad("x", 490) \o NL \o
           <<"d", "e", "b", "u", "g", "g", "e", "r", ";">>


\* os.sep
sep == "/"

\* str(path): of an absolute path, and of a path relative to the working
\* directory, which is written here with "." for first component
PathStr(path) ==
    IF path[1] = "."
    THEN Join([ i \in 1..(Len(path) - 1) |-> NameChars(path[i + 1]) ], sep)
    ELSE << sep >> \o Join([ i \in DOMAIN path |-> NameChars(path[i]) ], sep)

\* str(path) of a relative path
RelStr(path) == Join([ i \in DOMAIN path |-> NameChars(path[i]) ], sep)

IsPrefix(p, q) == Len(p) <= Len(q) /\ SubSeq(q, 1, Len(p)) = p

\* Path.suffix: the final component's last dot and what follows it, unless
\* that dot is the first or the last character of the component
Suffix(path) ==
    LET name == NameChars(path[Len(path)])
        dots == { i \in DOMAIN name : name[i] = "." }
        i == IF dots = { } THEN 0 ELSE CHOOSE d \in dots : \A e \in dots : e <= d
    IN  IF 1 < i /\ i < Len(name) THEN SubSeq(name, i, Len(name)) ELSE << >>

(***************************************************************************)
(* The file tree: the input of a run.  FileSlots are the places, relative  *)
(* to the root, a file can be; a tree gives a file (its text, and whether  *)
(* open() succeeds) to some of them, and its directories are the ancestors *)
(* of its files.                                                           *)
(***************************************************************************)
MaxFiles == 2

EligibleSlots ==
    { << "index.ts" >>,
      << "lib", "util.js" >>,
      << "src", "App.TSX" >>,
      << "shared", "types.ts" >>,
      << "client", "src", "ui.jsx" >> }

\* files no scan may read: below an ignored directory, of an extension no
\* handler takes, or a regular file that bears a candidate directory's name
FixedSlots ==
    { << "node_modules", "m.ts" >>,
      << "src", "dist", "out.js" >>,
      << "src", "notes.md" >>,
      << "shared" >> }

FileSlots == EligibleSlots \cup FixedSlots

TextIds == { "scenario", "comments", "react", "clean", "long" }

FileOptions(slot) ==
    IF slot \in EligibleSlots
    THEN [ text : TextIds, readable : { TRUE } ]
           \cup { [ text |-> "scenario", readable |-> FALSE ] }
    ELSE { [ text |-> "comments", readable |-> TRUE ] }

Trees ==
    UNION { { t \in [ S -> UNION { FileOptions(s) : s \in S } ] :
                \A s \in S : t[s] \in FileOptions(s) } :
            S \in { X \in SUBSET FileSlots :
                      /\ Cardinality(X) <= MaxFiles
                      /\ ~ (\E p \in X, q \in X : p # q /\ IsPrefix(p, q)) } }

\* the roots a run can be given: one of an ordinary name, one that bears a
\* name of the ignore set
RootDirs == { << "proj" >>, << "dist" >> }

\* the trees of the root that bears an ignored name are the small ones
MaxFilesIgnoredRoot == 1

MaxFilesIn(root) == IF root = << "proj" >> THEN MaxFiles ELSE MaxFilesIgnoredRoot

VARIABLES
    root_dir,       \* self.root_dir: Path(sys.argv[1]).resolve()
    root_arg,       \* sys.argv[1]: "dir", "file", "missing", or "absent" (no argument)
    tree,           \* the files under the root
    pc,             \* where main() is
    errors,         \* self.errors
    file_count,     \* self.file_count
    scanned_lines,  \* self.scanned_lines
    scan_dirs,      \* scan_codebase: the scan directories not yet started
    stack,          \* os.walk: the directories still to be listed
    queue,          \* _scan_directory: the files of the listed directory still to visit
    report,         \* the content of the output file
    exit_code,      \* the process's exit status
    entered,        \* the directories os.walk has listed, in order
    visited,        \* the files a handler has dealt with, in order, each with the rule sets applied
    out_file,       \* what the path self.output_file holds: "untouched" (what it held before
                    \* the run: a previous content, or no file), "partial" or "report"
    calls           \* what the calls of generate_statistics returned, in order

vars ==
    << root_dir, root_arg, tree, pc, errors, file_count, scanned_lines, scan_dirs, stack,
       queue, report, exit_code, entered, visited, out_file, calls >>

\* the tree t, given by paths relative to the root, with the paths made
\* absolute
Rooted(t) ==
    [ f \in { root_dir \o s : s \in DOMAIN t } |-> t[SubSeq(f, Len(root_dir) + 1, Len(f))] ]

Files == DOMAIN tree

\* Path.is_dir() and Path.exists()
IsDir(p) ==
    /\ root_arg = "dir"
    /\ p = root_dir \/ (\E f \in Files : IsPrefix(p, f) /\ p # f)

Exists(p) == p \in Files \/ IsDir(p) \/ (p = root_dir /\ root_arg = "file")

\* os.scandir(d): the entries of directory d
ListFiles(d) == { f \in Files : Len(f) = Len(d) + 1 /\ IsPrefix(d, f) }

ListDirs(d) ==
    { SubSeq(f, 1, Len(d) + 1) : f \in { g \in Files : Len(g) > Len(d) + 1 /\ IsPrefix(d, g) } }

\* the orders in which a directory listing can come
Orders(S) ==
    { s \in [ 1..Cardinality(S) -> S ] : \A i, j \in DOMAIN s : i # j => s[i] # s[j] }


(***************************************************************************)
(* ChanukaErrorExtractor                                                   *)
(***************************************************************************)
\* self.skip_dirs
skip_dirs ==
    { "node_modules", ".git", "__pycache__", "venv", "env", ".venv",
      "dist", "build", ".next", "target", "coverage", "test-results",
      "playwright-report", "drizzle", "backup", "tmp", "temp", ".cache",
      "out", "public", "static", ".turbo", ".vercel", ".netlify" }

\* the strings add_error compares the first path component with
unknown == << "u", "n", "k", "n", "o", "w", "n" >>

ModuleNames ==
    { NameChars("client"), NameChars("server"), NameChars("shared"), NameChars("src") }

\* add_error: the finding appended to self.errors (the wall-clock timestamp
\* field is not modelled; nothing reads it)
add_error(errs, file_path, error_type, message, line_number, severity, code_snippet) ==
    LET relative_path ==
            IF IsPrefix(root_dir, file_path)
            THEN RelStr(SubSeq(file_path, Len(root_dir) + 1, Len(file_path)))
            ELSE PathStr(file_path)
        path_parts == Split(relative_path, sep)
        first_dir == path_parts[1]
        module == IF first_dir \in ModuleNames THEN first_dir ELSE unknown
    IN  Append(errs,
               [ file |-> PathStr(file_path),
                 relative_path |-> relative_path,
                 module |-> module,
                 error_type |-> error_type,
                 severity |-> severity,
                 message |-> message,
                 line |-> line_number,
                 column |-> 0,
                 code_snippet |-> code_snippet ])

\* the dataclass's generated __eq__: field by field, in order
PatternEq(p, q) ==
    /\ p.name = q.name
    /\ p.regex = q.regex
    /\ p.severity = q.severity
    /\ p.message = q.message
    /\ p.compiled = q.compiled

PatternIn(p, list) == \E i \in DOMAIN list : PatternEq(p, list[i])

_get_category(pattern) ==
    IF PatternIn(pattern, typescript_patterns) THEN "TypeScript - "
    ELSE IF PatternIn(pattern, react_patterns) THEN "React - "
    ELSE IF PatternIn(pattern, import_patterns) THEN "Import/Export - "
    ELSE "Code Quality - "

\* the rules of the four lists
AllPatterns ==
    typescript_patterns \o react_patterns \o common_patterns \o import_patterns

\* content.split('\n') of each content a file can have (evaluated once)
ReadLines == [ id \in TextIds |-> Split(Text(id), "\n") ]

CorpusLines == UNION { Range(ReadLines[id]) : id \in TextIds }

\* the lines a scan can search, and for each the regex texts whose compiled
\* matcher finds a match in it (pattern.compiled.search(line), evaluated once)
SearchTable ==
    [ line \in CorpusLines |->
        { AllPatterns[k].regex :
            k \in { j \in DOMAIN AllPatterns :
                      /\ AllPatterns[j].compiled.t # "error"
                      /\ Search(AllPatterns[j].compiled, line) } } ]

\* Matches with a rule that has no compiled matcher taken to match
Matches_NoneMatches(pattern, line) ==
    pattern.compiled.t = "error" \/ pattern.regex \in SearchTable[line]

\* pattern.compiled and pattern.compiled.search(line)
Matches(pattern, line) ==
    pattern.compiled.t # "error" /\ pattern.regex \in SearchTable[line]

MaxLineLength == 500

SnippetLength == 150

\* TooLong with >= for >
TooLong_OffByOne(line) == Len(line) >= MaxLineLength

\* len(line) > 500
TooLong(line) == Len(line) > MaxLineLength

\* stripped.startswith('//') or stripped.startswith('*')
InComment(stripped) ==
    StartsWith(stripped, << "/", "/" >>) \/ StartsWith(stripped, << "*" >>)

\* IsMarkerRule with 'TODO' missing from the list
IsMarkerRule_NoTODO(name) == name \in { "FIXME", "BUG", "HACK", "XXX" }

\* pattern.name in ['TODO', 'FIXME', 'BUG', 'HACK', 'XXX']
IsMarkerRule(name) == name \in { "TODO", "FIXME", "BUG", "HACK", "XXX" }

\* Snippet without the [:150]
Snippet_NoTruncate(line) == Strip(line)

\* line.strip()[:150]
Snippet(line) == Take(Strip(line), SnippetLength)

\* Hits with the loop over patterns left at a line's first hit
Hits_FirstRule(lines, patterns) ==
    LET K == Len(patterns)
        found(line_num, k) ==
            /\ ~ (Len(lines[line_num]) > MaxLineLength)
            /\ patterns[k].compiled.t # "error"
            /\ patterns[k].regex \in SearchTable[lines[line_num]]
            /\ ~ (/\ \/ StartsWith(Strip(lines[line_num]), << "/", "/" >>)
                      \/ StartsWith(Strip(lines[line_num]), << "*" >>)
                   /\ patterns[k].name \notin { "TODO", "FIXME", "BUG", "HACK", "XXX" })
    IN  SelectSeq([ n \in 1..(Len(lines) * K) |->
                      [ line_num |-> ((n - 1) \div K) + 1, k |-> ((n - 1) % K) + 1 ] ],
                  LAMBDA it : /\ found(it.line_num, it.k)
                              /\ \A j \in 1..(it.k - 1) : ~ found(it.line_num, j))

\* _check_patterns, lines 243-255: the loop over lines and, within a line,
\* over patterns.  The n-th iteration of the nested loop is (line_num, k);
\* Hits are the iterations that reach add_error, in iteration order.
Hits(lines, patterns) ==
    LET K == Len(patterns)
        iterations ==
            [ n \in 1..(Len(lines) * K) |->
                [ line_num |-> ((n - 1) \div K) + 1, k |-> ((n - 1) % K) + 1 ] ]
        found(it) ==
            LET line == lines[it.line_num]
                pattern == patterns[it.k]
            IN  /\ ~ TooLong(line)
                /\ Matches(pattern, line)
                /\ ~ (InComment(Strip(line)) /\ ~ IsMarkerRule(pattern.name))
    IN  SelectSeq(iterations, found)

\* _check_patterns: a finding is appended for each hit
_check_patterns(errs, file_path, lines, patterns) ==
    LET hits == Hits(lines, patterns)
        finding(it) ==
            LET line == lines[it.line_num]
                pattern == patterns[it.k]
            IN  add_error(<< >>, file_path, _get_category(pattern) \o pattern.name,
                          pattern.message, it.line_num, pattern.severity,
                          Snippet(line))[1]
    IN  errs \o [ i \in DOMAIN hits |-> finding(hits[i]) ]

\* str(e) of the OSError open() raises
OSErrorText == "[Errno 13] Permission denied"

\* ReadFailed with the exception left to _scan_directory's handler
ReadFailed_Uncaught(self, file_path) ==
    [ errors |-> add_error(self.errors, file_path, "Scanner Error",
                           "Failed to scan: " \o OSErrorText, 0, "error", << >>),
      scanned_lines |-> self.scanned_lines,
      ran |-> << >> ]

\* The handlers.  self is [errors, scanned_lines]; the result adds the names
\* of the rule lists the handler ran, in order.
ReadFailed(self, file_path) ==
    [ errors |-> add_error(self.errors, file_path, "File Read Error", OSErrorText,
                           0, "error", << >>),
      scanned_lines |-> self.scanned_lines,
      ran |-> << >> ]

\* the handler's calls of _check_patterns, one per rule list, in order
RECURSIVE CheckAll(_, _, _, _)
CheckAll(errs, file_path, lines, lists) ==
    IF lists = << >> THEN errs
    ELSE CheckAll(_check_patterns(errs, file_path, lines, Head(lists)),
                  file_path, lines, Tail(lists))

\* Scanned with the lines of the file left out of the count
Scanned_LinesUncounted(self, file_path, lines, lists, names) ==
    [ errors |-> CheckAll(self.errors, file_path, lines, lists),
      scanned_lines |-> self.scanned_lines,
      ran |-> names ]

\* a handler that read the file: the rule lists are applied in order and the
\* lines counted
Scanned(self, file_path, lines, lists, names) ==
    [ errors |-> CheckAll(self.errors, file_path, lines, lists),
      scanned_lines |-> self.scanned_lines + Len(lines),
      ran |-> names ]

check_typescript_file(self, file_path) ==
    IF ~ tree[file_path].readable THEN ReadFailed(self, file_path)
    ELSE Scanned(self, file_path, ReadLines[tree[file_path].text],
                 << typescript_patterns, common_patterns, import_patterns >>,
                 << "typescript", "common", "import" >>)

check_react_file(self, file_path) ==
    IF ~ tree[file_path].readable THEN ReadFailed(self, file_path)
    ELSE Scanned(self, file_path, ReadLines[tree[file_path].text],
                 << react_patterns, typescript_patterns, common_patterns,
                    import_patterns >>,
                 << "react", "typescript", "common", "import" >>)

check_javascript_file(self, file_path) == check_typescript_file(self, file_path)

\* file_extensions with '.js' given the React handler
file_extensions_JsAsReact(file_ext) ==
    CASE file_ext = << ".", "t", "s" >> -> "check_typescript_file"
      [] file_ext = << ".", "t", "s", "x" >> -> "check_react_file"
      [] file_ext = << ".", "j", "s" >> -> "check_react_file"
      [] file_ext = << ".", "j", "s", "x" >> -> "check_react_file"
      [] OTHER -> ""

\* self.file_extensions: the handler of an extension, "" for none
file_extensions(file_ext) ==
    CASE file_ext = << ".", "t", "s" >> -> "check_typescript_file"
      [] file_ext = << ".", "t", "s", "x" >> -> "check_react_file"
      [] file_ext = << ".", "j", "s" >> -> "check_javascript_file"
      [] file_ext = << ".", "j", "s", "x" >> -> "check_react_file"
      [] OTHER -> ""

Call(handler, self, file_path) ==
    CASE handler = "check_typescript_file" -> check_typescript_file(self, file_path)
      [] handler = "check_react_file" -> check_react_file(self, file_path)
      [] handler = "check_javascript_file" -> check_javascript_file(self, file_path)


(***************************************************************************)
(* generate_statistics and save_to_json                                    *)
(***************************************************************************)
\* Incr that leaves the count of a key it already has
RECURSIVE Incr_OnceOnly(_, _)
Incr_OnceOnly(dict, key) ==
    IF dict = << >> THEN << [ key |-> key, count |-> 1 ] >>
    ELSE IF Head(dict).key = key THEN dict
    ELSE << Head(dict) >> \o Incr_OnceOnly(Tail(dict), key)

\* A dict is the sequence of its items in insertion order.
RECURSIVE Incr(_, _)
Incr(dict, key) ==
    IF dict = << >> THEN << [ key |-> key, count |-> 1 ] >>
    ELSE IF Head(dict).key = key
    THEN << [ key |-> key, count |-> Head(dict).count + 1 ] >> \o Tail(dict)
    ELSE << Head(dict) >> \o Incr(Tail(dict), key)

RECURSIVE CountBy(_, _, _)
CountBy(errs, field, dict) ==
    IF errs = << >> THEN dict
    ELSE CountBy(Tail(errs), field, Incr(dict, Head(errs)[field]))

\* InsertByCount that puts an item before the items of equal count
RECURSIVE InsertByCount_TiesLast(_, _)
InsertByCount_TiesLast(sorted, item) ==
    IF sorted = << >> THEN << item >>
    ELSE IF Head(sorted).count <= item.count THEN << item >> \o sorted
    ELSE << Head(sorted) >> \o InsertByCount_TiesLast(Tail(sorted), item)

\* sorted(items, key=lambda x: x[1], reverse=True): stable, larger counts first
RECURSIVE InsertByCount(_, _)
InsertByCount(sorted, item) ==
    IF sorted = << >> THEN << item >>
    ELSE IF Head(sorted).count < item.count THEN << item >> \o sorted
    ELSE << Head(sorted) >> \o InsertByCount(Tail(sorted), item)

RECURSIVE SortByCount(_, _)
SortByCount(items, sorted) ==
    IF items = << >> THEN sorted
    ELSE SortByCount(Tail(items), InsertByCount(sorted, Head(items)))

TopErrors == 15

TopFiles == 10

generate_statistics(errs) ==
    LET by_type == CountBy(errs, "error_type", << >>)
        by_file == CountBy(errs, "relative_path", << >>)
    IN  [ total_errors |-> Len(errs),
          by_severity |-> CountBy(errs, "severity", << >>),
          by_type |-> by_type,
          by_module |-> CountBy(errs, "module", << >>),
          by_file |-> by_file,
          top_errors |-> Take(SortByCount(by_type, << >>), TopErrors),
          critical_files |-> Take(SortByCount(by_file, << >>), TopFiles) ]

\* {"critical": 0, "error": 1, "warning": 2, "info": 3}.get(severity, 4)
SeverityRank(severity) ==
    CASE severity = "critical" -> 0
      [] severity = "error" -> 1
      [] severity = "warning" -> 2
      [] severity = "info" -> 3
      [] OTHER -> 4

\* KeyLess with the line number left out of the key
KeyLess_NoLine(a, b) ==
    \/ SeverityRank(a.severity) < SeverityRank(b.severity)
    \/ /\ SeverityRank(a.severity) = SeverityRank(b.severity)
       /\ StrLess(a.file, b.file)

\* the sort key (rank, file, line) of a is less than that of b
KeyLess(a, b) ==
    \/ SeverityRank(a.severity) < SeverityRank(b.severity)
    \/ /\ SeverityRank(a.severity) = SeverityRank(b.severity)
       /\ \/ StrLess(a.file, b.file)
          \/ a.file = b.file /\ a.line < b.line

\* sorted(self.errors, key=...): a stable sort, so an element goes before the
\* first one whose key is greater
RECURSIVE InsertByKey(_, _)
InsertByKey(sorted, x) ==
    IF sorted = << >> THEN << x >>
    ELSE IF KeyLess(x, Head(sorted)) THEN << x >> \o sorted
    ELSE << Head(sorted) >> \o InsertByKey(Tail(sorted), x)

RECURSIVE SortFrom(_, _)
SortFrom(errs, sorted) ==
    IF errs = << >> THEN sorted
    ELSE SortFrom(Tail(errs), InsertByKey(sorted, Head(errs)))

SortedErrors(errs) == SortFrom(errs, << >>)

\* the document save_to_json dumps
Output(errs, files, lines) ==
    [ written |-> TRUE,
      metadata |-> [ total_errors |-> Len(errs),
                     files_scanned |-> files,
                     lines_scanned |-> lines ],
      statistics |-> generate_statistics(errs),
      errors |-> SortedErrors(errs) ]

NoReport == [ written |-> FALSE ]

(***************************************************************************)
(* The run: main, scan_codebase, _scan_directory, save_to_json             *)
(***************************************************************************)
Init ==
    /\ root_dir \in RootDirs
    /\ root_arg \in { "dir", "file", "missing", "absent" }
    /\ tree \in IF root_arg = "dir"
                 THEN { Rooted(t) : t \in { u \in Trees : Cardinality(DOMAIN u) <= MaxFilesIn(root_dir) } }
                 ELSE { << >> }
    /\ pc = "main"
    /\ errors = << >>
    /\ file_count = 0
    /\ scanned_lines = 0
    /\ scan_dirs = << >>
    /\ stack = << >>
    /\ queue = << >>
    /\ report = NoReport
    /\ exit_code = -1
    /\ entered = << >>
    /\ visited = << >>
    /\ out_file = "untouched"
    /\ calls = << >>

\* main: no argument, or a root that does not exist: exit 1
MainRejects ==
    /\ pc = "main"
    /\ root_arg \in { "absent", "missing" }
    /\ pc' = "exited"
    /\ exit_code' = 1
    /\ UNCHANGED << out_file, calls, root_dir, root_arg, tree, errors, file_count, scanned_lines, scan_dirs,
                    stack, queue, report, entered, visited >>

\* main: the extractor is constructed and scan_codebase called
MainStarts ==
    /\ pc = "main"
    /\ root_arg \in { "dir", "file" }
    /\ pc' = "scan_codebase"
    /\ errors' = << >>
    /\ file_count' = 0
    /\ scanned_lines' = 0
    /\ UNCHANGED << out_file, calls, root_dir, root_arg, tree, scan_dirs, stack, queue, report, exit_code,
                    entered, visited >>

\* scan_codebase: the candidate directories, in the order of the code's list
PossibleDirs ==
    << << "client", "src" >>, << "server" >>, << "shared" >>, << "src" >> >>

\* ScanDirs with the root scanned whether or not a candidate was found
ScanDirs_RootToo ==
    SelectSeq([ i \in DOMAIN PossibleDirs |-> root_dir \o PossibleDirs[i] ],
              LAMBDA full_path : Exists(full_path) /\ IsDir(full_path))
        \o << root_dir >>

\* scan_codebase, lines 145-154
ScanDirs ==
    LET found == SelectSeq([ i \in DOMAIN PossibleDirs |-> root_dir \o PossibleDirs[i] ],
                           LAMBDA full_path : Exists(full_path) /\ IsDir(full_path))
    IN  IF found = << >> THEN << root_dir >> ELSE found

ScanCodebase ==
    /\ pc = "scan_codebase"
    /\ scan_dirs' = ScanDirs
    /\ pc' = "scan_dirs"
    /\ UNCHANGED << out_file, calls, root_dir, root_arg, tree, errors, file_count, scanned_lines, stack, queue,
                    report, exit_code, entered, visited >>

\* the loop over scan_dirs: _scan_directory(scan_dir) starts os.walk(scan_dir)
ScanDirectory ==
    /\ pc = "scan_dirs"
    /\ scan_dirs # << >>
    /\ stack' = << Head(scan_dirs) >>
    /\ scan_dirs' = Tail(scan_dirs)
    /\ pc' = "walk"
    /\ UNCHANGED << out_file, calls, root_dir, root_arg, tree, errors, file_count, scanned_lines, queue, report,
                    exit_code, entered, visited >>

\* Pruned without the filter
Pruned_Nothing(dirs) == dirs

\* dirs[:] = [d for d in dirs if d not in self.skip_dirs]
Pruned(dirs) == { d \in dirs : d[Len(d)] \notin skip_dirs }

\* os.walk yields the next directory: its entries are listed (a path that is
\* no directory lists nothing), its sub-directories pruned and pushed, and
\* its files queued, each in some order
WalkStep ==
    /\ pc = "walk"
    /\ queue = << >>
    /\ stack # << >>
    /\ LET top == Head(stack)
       IN  IF IsDir(top)
           THEN /\ entered' = Append(entered, top)
                /\ \E files \in Orders(ListFiles(top)), dirs \in Orders(Pruned(ListDirs(top))) :
                     /\ queue' = files
                     /\ stack' = dirs \o Tail(stack)
           ELSE /\ stack' = Tail(stack)
                /\ UNCHANGED << queue, entered >>
    /\ UNCHANGED << out_file, calls, root_dir, root_arg, tree, pc, errors, file_count, scanned_lines, scan_dirs,
                    report, exit_code, visited >>

\* the body of "for file in files": an eligible file goes to its handler and
\* is counted; a handler that raised would leave a Scanner Error instead
VisitFile ==
    /\ pc = "walk"
    /\ queue # << >>
    /\ \E handler \in { file_extensions(Lower(Suffix(Head(queue)))) } :
         IF handler # ""
         THEN \E r \in { Call(handler, [ errors |-> errors,
                                         scanned_lines |-> scanned_lines ],
                               Head(queue)) } :
                /\ errors' = r.errors
                /\ scanned_lines' = r.scanned_lines
                /\ file_count' = file_count + 1
                /\ visited' = Append(visited, [ file |-> Head(queue), ran |-> r.ran ])
         ELSE UNCHANGED << errors, scanned_lines, file_count, visited >>
    /\ queue' = Tail(queue)
    /\ UNCHANGED << out_file, calls, root_dir, root_arg, tree, pc, scan_dirs, stack, report, exit_code, entered >>

\* os.walk is exhausted: _scan_directory returns
WalkDone ==
    /\ pc = "walk"
    /\ queue = << >>
    /\ stack = << >>
    /\ pc' = "scan_dirs"
    /\ UNCHANGED << out_file, calls, root_dir, root_arg, tree, errors, file_count, scanned_lines, scan_dirs, stack,
                    queue, report, exit_code, entered, visited >>

\* except_Exception as a clause that catches every exception (BaseException)
except_BaseException(exc) == TRUE

\* except Exception (lines 179, 204, 228, 430): the exceptions the clause
\* catches are those that derive from Exception
except_Exception(exc) == exc \notin { "KeyboardInterrupt", "SystemExit" }

\* main's handlers, lines 427-434: the exit status for an exception that
\* reached main
ExitFor(exc) ==
    IF exc = "KeyboardInterrupt" THEN 130
    ELSE IF except_Exception(exc) THEN 1
    ELSE 0

\* a handler's self at the moment an exception can arrive in it: before the
\* read, or after it with some of the findings appended; r is what the
\* handler returns when nothing arrives
PartialRuns(self, r) ==
    { self } \cup
    { [ errors |-> SubSeq(r.errors, 1, k), scanned_lines |-> r.scanned_lines ] :
        k \in Len(self.errors)..Len(r.errors) }

\* KeyboardInterrupt between two steps of scan_codebase or _scan_directory:
\* no handler of the scan catches it, main exits
Interrupt ==
    /\ pc \in { "scan_codebase", "scan_dirs", "walk" }
    /\ pc' = "exited"
    /\ exit_code' = ExitFor("KeyboardInterrupt")
    /\ UNCHANGED << out_file, calls, root_dir, root_arg, tree, errors, file_count, scanned_lines,
                    scan_dirs, stack, queue, report, entered, visited >>

\* KeyboardInterrupt inside a file handler (the read, or _check_patterns).
\* The handler's except Exception decides: caught, the file gets a File Read
\* Error finding and the walk goes on; not caught, it reaches main.
InterruptInHandler ==
    /\ pc = "walk"
    /\ queue # << >>
    /\ \E handler \in { file_extensions(Lower(Suffix(Head(queue)))) } :
         /\ handler # ""
         /\ \E r \in { Call(handler, [ errors |-> errors,
                                         scanned_lines |-> scanned_lines ],
                               Head(queue)) } :
              \E part \in PartialRuns([ errors |-> errors,
                                         scanned_lines |-> scanned_lines ], r) :
                IF except_Exception("KeyboardInterrupt")
                THEN /\ errors' = ReadFailed(part, Head(queue)).errors
                     /\ scanned_lines' = part.scanned_lines
                     /\ file_count' = file_count + 1
                     /\ visited' = Append(visited, [ file |-> Head(queue), ran |-> << >> ])
                     /\ queue' = Tail(queue)
                     /\ UNCHANGED << pc, exit_code >>
                ELSE /\ errors' = part.errors
                     /\ scanned_lines' = part.scanned_lines
                     /\ pc' = "exited"
                     /\ exit_code' = ExitFor("KeyboardInterrupt")
                     /\ UNCHANGED << file_count, visited, queue >>
    /\ UNCHANGED << out_file, calls, root_dir, root_arg, tree, scan_dirs, stack, report, entered >>

\* scan_codebase returns; save_to_json calls generate_statistics, writes the
\* report; sys.exit(0)
SaveToJson ==
    /\ pc = "scan_dirs"
    /\ scan_dirs = << >>
    /\ report' = Output(errors, file_count, scanned_lines)
    /\ calls' = Append(calls, [ seen |-> Len(errors), result |-> generate_statistics(errors) ])
    /\ out_file' = "report"
    /\ pc' = "exited"
    /\ exit_code' = ExitFor("SystemExit")
    /\ UNCHANGED << root_dir, root_arg, tree, errors, file_count, scanned_lines, scan_dirs, stack,
                    queue, entered, visited >>

\* save_to_json, line 366: open(self.output_file, 'w') raises OSError (the
\* directory is missing or not writable); nothing is written; main exits 1
SaveOpenFails ==
    /\ pc = "scan_dirs"
    /\ scan_dirs = << >>
    /\ calls' = Append(calls, [ seen |-> Len(errors), result |-> generate_statistics(errors) ])
    /\ pc' = "exited"
    /\ exit_code' = ExitFor("OSError")
    /\ UNCHANGED << out_file, root_dir, root_arg, tree, errors, file_count, scanned_lines,
                    scan_dirs, stack, queue, report, entered, visited >>

\* save_to_json, lines 366-367: open(..., 'w') has truncated or created the
\* file and json.dump is stopped part-way, by an OSError of a write or by a
\* KeyboardInterrupt; the with statement closes the file and nothing removes
\* or restores it
SaveWriteFails ==
    /\ pc = "scan_dirs"
    /\ scan_dirs = << >>
    /\ calls' = Append(calls, [ seen |-> Len(errors), result |-> generate_statistics(errors) ])
    /\ out_file' = "partial"
    /\ pc' = "exited"
    /\ \E exc \in { "OSError", "KeyboardInterrupt" } : exit_code' = ExitFor(exc)
    /\ UNCHANGED << root_dir, root_arg, tree, errors, file_count, scanned_lines,
                    scan_dirs, stack, queue, report, entered, visited >>

Next ==
    \/ MainRejects
    \/ MainStarts
    \/ ScanCodebase
    \/ ScanDirectory
    \/ WalkStep
    \/ VisitFile
    \/ WalkDone
    \/ SaveToJson
    \/ SaveOpenFails
    \/ SaveWriteFails
    \/ Interrupt
    \/ InterruptInHandler

Spec == Init /\ [][Next]_vars

(***************************************************************************)
(* The class used as a library: an extractor is constructed, its caller    *)
(* adds findings with add_error and asks for the statistics.  The findings *)
(* lists are drawn from a family that has more distinct rule identifiers   *)
(* and more distinct files than the statistics keep.                       *)
(***************************************************************************)
MaxKeys == 17

MaxCalls == 2

MaxAdded == 2

\* the k-th rule identifier and the k-th file a caller names
ApiTypes ==
    [ k \in DOMAIN AllPatterns |-> _get_category(AllPatterns[k]) \o AllPatterns[k].name ]

ApiType(k) == ApiTypes[k]

ApiFile(k) == << "proj", "src", LowerLetters[k] \o ".ts" >>

\* a plan names n keys once each, in order, and then the last of them, or
\* the last and one other, again
KeyPlans ==
    UNION { { [ n |-> n, heavy |-> h ] :
                h \in { { } } \cup { { a, n } : a \in 1..n } } :
            n \in 0..MaxKeys }

RECURSIVE Ascending(_)
Ascending(S) ==
    IF S = { } THEN << >>
    ELSE LET m == CHOOSE x \in S : \A y \in S : x <= y
         IN  << m >> \o Ascending(S \ { m })

KeysOf(plan) ==
    [ i \in 1..plan.n |-> i ] \o Ascending(plan.heavy)

\* the findings a caller makes of a plan: of one file and many rules, or of
\* many files with a rule of its own each
AddAll(keys, mode) ==
    [ i \in DOMAIN keys |->
        add_error(<< >>,
                  IF mode = "types" THEN ApiFile(1) ELSE ApiFile(keys[i]),
                  ApiType(keys[i]),
                  "m", i, "warning", << >>)[1] ]

\* the paths a caller can give to add_error: under the root and in a module
\* directory, under the root elsewhere, directly under the root, absolute
\* and not under the root, relative to the working directory
ApiPaths ==
    { << "proj", "shared", "a.ts" >>, << "proj", "lib", "a.ts" >>, << "proj", "a.ts" >>,
      << "other", "src", "a.ts" >>, << ".", "src", "a.ts" >>, << ".", "lib", "a.ts" >> }

ApiInit ==
    /\ root_dir = << "proj" >>
    /\ root_arg = "dir"
    /\ tree = << >>
    /\ pc = "api"
    /\ \E plan \in KeyPlans, mode \in { "types", "both" } :
         /\ errors = AddAll(KeysOf(plan), mode)
    /\ file_count = 0
    /\ scanned_lines = 0
    /\ scan_dirs = << >>
    /\ stack = << >>
    /\ queue = << >>
    /\ report = NoReport
    /\ exit_code = -1
    /\ entered = << >>
    /\ visited = << >>
    /\ out_file = "untouched"
    /\ calls = << >>

\* a call of add_error by the caller
ApiAddError ==
    /\ pc = "api"
    /\ Len(errors) < MaxAdded
    /\ \E file_path \in ApiPaths, severity \in { "critical", "info" } :
         errors' = add_error(errors, file_path, ApiType(2), "m", 1, severity, << >>)
    /\ UNCHANGED << out_file, calls, root_dir, root_arg, tree, pc, file_count, scanned_lines,
                    scan_dirs, stack, queue, report, exit_code, entered, visited >>

\* StatsCall that hands the findings over and leaves the collection empty
StatsCall_Consumes(self) ==
    [ self |-> [ self EXCEPT !.errors = << >> ], ret |-> generate_statistics(self.errors) ]

\* generate_statistics, lines 308-340, as a method: what it leaves of self
\* (it assigns to no field) and what it returns
StatsCall(self) == [ self |-> self, ret |-> generate_statistics(self.errors) ]

\* a call of generate_statistics by the caller
ApiGenerateStatistics ==
    /\ pc = "api"
    /\ Len(calls) < MaxCalls
    /\ \E c \in { StatsCall([ errors |-> errors, file_count |-> file_count,
                               scanned_lines |-> scanned_lines ]) } :
         /\ errors' = c.self.errors
         /\ file_count' = c.self.file_count
         /\ scanned_lines' = c.self.scanned_lines
         /\ calls' = Append(calls, [ seen |-> Len(errors), result |-> c.ret ])
    /\ UNCHANGED << out_file, root_dir, root_arg, tree, pc, scan_dirs, stack, queue, report,
                    exit_code, entered, visited >>

\* a call of save_to_json by the caller
ApiSaveToJson ==
    /\ pc = "api"
    /\ report' = Output(errors, file_count, scanned_lines)
    /\ calls' = Append(calls, [ seen |-> Len(errors), result |-> generate_statistics(errors) ])
    /\ out_file' = "report"
    /\ pc' = "saved"
    /\ UNCHANGED << root_dir, root_arg, tree, errors, file_count, scanned_lines, scan_dirs,
                    stack, queue, exit_code, entered, visited >>

ApiNext ==
    \/ ApiAddError
    \/ ApiGenerateStatistics
    \/ ApiSaveToJson

ApiSpec == ApiInit /\ [][ApiNext]_vars


(***************************************************************************)
(* Properties                                                              *)
(***************************************************************************)
\* the tree's file a finding is about, and the lines a handler reads in it
FileOf(e) == CHOOSE f \in Files : PathStr(f) = e.file

LinesOf(f) == ReadLines[tree[f].text]

SyntheticTypes == { "File Read Error", "Scanner Error" }

IsRuleFinding(e) == e.error_type \notin SyntheticTypes

\* the severity ranks as the claims state them
RankOf(severity) ==
    CASE severity = "critical" -> 0
      [] severity = "error" -> 1
      [] severity = "warning" -> 2
      [] severity = "info" -> 3

\* s <= t on strings
StrLeq(s, t) == s = t \/ StrLess(s, t)

\* C1: in the written 'errors' list, for any two findings A before B,
\* rank(A.severity) <= rank(B.severity) (critical 0 < error 1 < warning 2 <
\* info 3); if the ranks are equal then A.file <= B.file; and if the files
\* are equal too then A.line <= B.line.
C1_OutputOrdered ==
    report.written =>
        \A i, j \in DOMAIN report.errors :
            i < j =>
                LET A == report.errors[i]
                    B == report.errors[j]
                IN  /\ RankOf(A.severity) <= RankOf(B.severity)
                    /\ RankOf(A.severity) = RankOf(B.severity) =>
                          /\ StrLeq(A.file, B.file)
                          /\ A.file = B.file => A.line <= B.line

\* C1 witness: a written report that the sort had to reorder, in which two
\* findings tie on severity and differ in file, and two tie on severity and
\* file and differ in line
C1_Witness ==
    /\ report.written
    /\ report.errors # errors
    /\ \E i, j \in DOMAIN report.errors :
          /\ i < j
          /\ report.errors[i].severity = report.errors[j].severity
          /\ report.errors[i].file # report.errors[j].file
    /\ \E i, j \in DOMAIN report.errors :
          /\ i < j
          /\ report.errors[i].severity = report.errors[j].severity
          /\ report.errors[i].file = report.errors[j].file
          /\ report.errors[i].line < report.errors[j].line

\* the findings collections whose every insertion order is tried
MaxPermuted == 7

\* C2: the order of the written 'errors' list is a function of the findings'
\* content only: whatever the order in which the same findings were appended
\* to self.errors, save_to_json emits them in the same sequence.
C2_OrderIndependent ==
    (report.written /\ Len(errors) <= MaxPermuted) =>
        \A p \in Permutations(DOMAIN errors) :
            SortedErrors([ i \in DOMAIN errors |-> errors[p[i]] ]) = report.errors

\* C3 as stated: every finding has line number >= 1 and a snippet of at most
\* 150 characters
C3_Original ==
    \A i \in DOMAIN errors :
        errors[i].line >= 1 /\ Len(errors[i].code_snippet) <= 150

\* C3 as amended: every finding has a snippet of at most 150 characters;
\* every finding made by a rule match has line number >= 1; the synthetic
\* findings (File Read Error, Scanner Error) have line number 0 and an empty
\* snippet.
C3_LineAndSnippet ==
    \A i \in DOMAIN errors :
        /\ Len(errors[i].code_snippet) <= 150
        /\ IsRuleFinding(errors[i]) => errors[i].line >= 1
        /\ ~ IsRuleFinding(errors[i]) =>
              errors[i].line = 0 /\ errors[i].code_snippet = << >>

\* C3 witness: the collection holds a finding whose line was cut to exactly
\* 150 characters and a finding of a failed read
C3_Witness ==
    /\ \E i \in DOMAIN errors :
          /\ IsRuleFinding(errors[i])
          /\ Len(errors[i].code_snippet) = 150
          /\ Len(Strip(LinesOf(FileOf(errors[i]))[errors[i].line])) > 150
    /\ \E i \in DOMAIN errors : errors[i].error_type = "File Read Error"

(***************************************************************************)
(* Properties of matching, traversal and dispatch                          *)
(***************************************************************************)
VisitedFiles == { visited[i].file : i \in DOMAIN visited }

\* the files the findings are about, and the names findings give to files
FindingFiles == { errors[i].file : i \in DOMAIN errors }

PathsOf(S) == { PathStr(f) : f \in S }

\* the findings about file f, in the order they were appended
FindingsOf(f) ==
    LET path == PathStr(f)
    IN  SelectSeq(errors, LAMBDA e : e.file = path)

\* how many of the findings fs are about line n
CountAt(fs, n) == Cardinality({ j \in DOMAIN fs : fs[j].line = n })

\* how many of the findings fs are of the given type about line n
CountOf(fs, n, error_type) ==
    Cardinality({ j \in DOMAIN fs : fs[j].line = n /\ fs[j].error_type = error_type })

MarkerNames == { "TODO", "FIXME", "BUG", "HACK", "XXX" }

MarkerTypes == { "Code Quality - " \o m : m \in MarkerNames }

\* the trimmed line starts with '//', '/*' or '*'
StartsAsComment(line) ==
    \/ StartsWith(Strip(line), << "/", "/" >>)
    \/ StartsWith(Strip(line), << "/", "*" >>)
    \/ StartsWith(Strip(line), << "*" >>)

ComponentExts == { << ".", "t", "s", "x" >>, << ".", "j", "s", "x" >> }

ScriptExts == { << ".", "t", "s" >>, << ".", "j", "s" >> }

ExtOf(f) == Lower(Suffix(f))

\* the rule lists the claims give to an extension
ListsFor(ext) ==
    IF ext \in ComponentExts
    THEN << react_patterns, typescript_patterns, common_patterns, import_patterns >>
    ELSE << typescript_patterns, common_patterns, import_patterns >>

\* what a finding says, apart from the file it is about
Said(e) ==
    [ error_type |-> e.error_type, severity |-> e.severity, message |-> e.message,
      line |-> e.line, column |-> e.column, code_snippet |-> e.code_snippet ]

\* what the rule lists, applied in order to the lines, say
RECURSIVE SaidBy(_, _)
SaidBy(lines, lists) ==
    IF lists = << >> THEN << >>
    ELSE LET list == Head(lists)
             hits == Hits(lines, list)
         IN  [ i \in DOMAIN hits |->
                 [ error_type |-> _get_category(list[hits[i].k]) \o list[hits[i].k].name,
                   severity |-> list[hits[i].k].severity,
                   message |-> list[hits[i].k].message,
                   line |-> hits[i].line_num,
                   column |-> 0,
                   code_snippet |-> Snippet(lines[hits[i].line_num]) ] ]
               \o SaidBy(lines, Tail(lists))

\* for each content and each kind of extension, what a scan of a file of
\* that content alone says (evaluated once)
ScanAlone ==
    [ id \in TextIds |->
        [ ext \in ComponentExts \cup ScriptExts |-> SaidBy(ReadLines[id], ListsFor(ext)) ] ]

\* some path component below the root, up to position last, is an ignored name
HasIgnored(p, last) == \E k \in (Len(root_dir) + 1)..last : p[k] \in skip_dirs

Count(seq, x) == Cardinality({ i \in DOMAIN seq : seq[i] = x })

RECURSIVE LinesRead(_)
LinesRead(vs) ==
    IF vs = << >> THEN 0
    ELSE (IF tree[Head(vs).file].readable THEN Len(LinesOf(Head(vs).file)) ELSE 0)
             + LinesRead(Tail(vs))

\* the scan ran to its end: save_to_json was reached
ScanCompleted == calls # << >>

\* every visited file is counted once, and the lines of every file read
CountersMatchVisits ==
    /\ file_count = Len(visited)
    /\ Cardinality(VisitedFiles) = Len(visited)
    /\ exit_code # 130 => scanned_lines = LinesRead(visited)

\* C4 as stated: a rule that is not one of TODO/FIXME/BUG/HACK/XXX leaves no
\* finding on a line whose trimmed text starts with '//', '/*' or '*'.
C4_CommentSuppressed ==
    \A i \in DOMAIN errors :
        (/\ IsRuleFinding(errors[i])
         /\ StartsAsComment(LinesOf(FileOf(errors[i]))[errors[i].line]))
            => errors[i].error_type \in MarkerTypes

\* C5: on every line of at most 500 characters of a file that was read, of
\* whatever eligible extension, each marker rule (TODO, FIXME, BUG, HACK,
\* XXX) that matches the line has exactly one finding at that line, comment
\* or not; the line '// TODO fix this' has exactly one finding in total, the
\* TODO one.
TodoFixThis ==
    << "/", "/", " ", "T", "O", "D", "O", " ", "f", "i", "x", " ", "t", "h", "i", "s" >>

C5_MarkersFound ==
    \A i \in DOMAIN visited :
        LET f == visited[i].file
            fs == FindingsOf(f)
        IN  tree[f].readable =>
                \A n \in DOMAIN LinesOf(f) :
                    LET line == LinesOf(f)[n]
                    IN  /\ \A k \in DOMAIN common_patterns :
                              (/\ Len(line) <= 500
                               /\ common_patterns[k].name \in MarkerNames
                               /\ Matches(common_patterns[k], line))
                                  => CountOf(fs, n, "Code Quality - "
                                                       \o common_patterns[k].name) = 1
                        /\ line = TodoFixThis =>
                              /\ CountAt(fs, n) = 1
                              /\ CountOf(fs, n, "Code Quality - TODO") = 1

\* C5 witness: a file holding the line '// TODO fix this' has been scanned
C5_Witness ==
    \E i \in DOMAIN visited :
        /\ tree[visited[i].file].readable
        /\ \E n \in DOMAIN LinesOf(visited[i].file) :
              /\ LinesOf(visited[i].file)[n] = TodoFixThis
              /\ StartsAsComment(TodoFixThis)
              /\ CountAt(FindingsOf(visited[i].file), n) > 0

\* C6: no finding is about a line longer than 500 characters; in a file that
\* was read, every line of at most 500 characters that one of the file's
\* rules matches outside a comment has a finding; and every visited file is
\* counted once in files_scanned and its lines, long ones included, in
\* lines_scanned.
C6_LongLinesSkipped ==
    /\ \A i \in DOMAIN visited :
          LET f == visited[i].file
              fs == FindingsOf(f)
              lists == ListsFor(ExtOf(f))
          IN  tree[f].readable =>
                  \A n \in DOMAIN LinesOf(f) :
                      LET line == LinesOf(f)[n]
                      IN  IF Len(line) > 500
                          THEN CountAt(fs, n) = 0
                          ELSE (/\ ~ StartsAsComment(line)
                                /\ \E l \in DOMAIN lists : \E k \in DOMAIN lists[l] :
                                      Matches(lists[l][k], line))
                                   => CountAt(fs, n) > 0
    /\ exit_code # 130 => FindingFiles \subseteq PathsOf(VisitedFiles)
    /\ CountersMatchVisits

\* C6 witness: a scanned file holds a line of more than 500 characters that
\* a rule matches and a line of exactly 500 characters that has a finding
C6_Witness ==
    \E i \in DOMAIN visited :
        LET f == visited[i].file
            fs == FindingsOf(f)
        IN  /\ tree[f].readable
            /\ \E n \in DOMAIN LinesOf(f) :
                  /\ Len(LinesOf(f)[n]) > 500
                  /\ \E k \in DOMAIN common_patterns :
                        Matches(common_patterns[k], LinesOf(f)[n])
                  /\ CountAt(fs, n) = 0
            /\ \E n \in DOMAIN LinesOf(f) :
                  Len(LinesOf(f)[n]) = 500 /\ CountAt(fs, n) > 0
            /\ file_count >= 1
            /\ scanned_lines >= Len(LinesOf(f))

\* C7 as stated: no directory that bears an ignored name is ever listed by
\* the walk, at any depth, and no file below such a directory is handed to a
\* handler or is the subject of a finding.
C7_Original ==
    /\ \A i \in DOMAIN entered :
          \A k \in DOMAIN entered[i] : entered[i][k] \notin skip_dirs
    /\ \A i \in DOMAIN visited :
          \A k \in 1..(Len(visited[i].file) - 1) : visited[i].file[k] \notin skip_dirs
    /\ \A i \in DOMAIN errors :
          \A k \in 1..(Len(FileOf(errors[i])) - 1) : FileOf(errors[i])[k] \notin skip_dirs

\* C7, amended: below the root the run was given, no directory with an
\* ignored name is ever listed by the walk or even scheduled for it, at any
\* depth; no file that has such a directory between it and the root is
\* queued, handed to a handler, or the subject of a finding; and the
\* counters count the visited files only.  The root itself is scanned
\* whatever its name.
C7_IgnoredNeverEntered ==
    /\ \A i \in DOMAIN entered : ~ HasIgnored(entered[i], Len(entered[i]))
    /\ \A i \in DOMAIN stack : ~ HasIgnored(stack[i], Len(stack[i]))
    /\ \A i \in DOMAIN queue : ~ HasIgnored(queue[i], Len(queue[i]) - 1)
    /\ \A i \in DOMAIN visited :
          ~ HasIgnored(visited[i].file, Len(visited[i].file) - 1)
    /\ FindingFiles \subseteq PathsOf({ f \in Files : ~ HasIgnored(f, Len(f) - 1) })
    /\ (ScanCompleted /\ root_arg = "dir") =>
          \A i \in DOMAIN ScanDirs : Count(entered, ScanDirs[i]) = 1
    /\ CountersMatchVisits

\* C7 witness: the scan is over, it listed a directory that has an ignored
\* sub-directory, and that sub-directory holds a file a handler would take
C7_Witness ==
    /\ pc = "exited"
    /\ report.written
    /\ \E f \in Files :
          /\ file_extensions(ExtOf(f)) # ""
          /\ f[Len(f) - 1] \in skip_dirs
          /\ \E i \in DOMAIN entered : entered[i] = SubSeq(f, 1, Len(f) - 2)
          /\ f \notin VisitedFiles

\* the candidate sub-directories that exist as directories
ExistingCandidates ==
    { c \in { root_dir \o PossibleDirs[i] : i \in DOMAIN PossibleDirs } :
        \E f \in Files : IsPrefix(c, f) /\ f # c }

\* C8: when the run of a root directory is over, every candidate
\* sub-directory that exists as a directory has been walked exactly once;
\* the root itself has been walked if and only if no candidate exists; and
\* when a candidate exists, every visited file and every finding is inside
\* an existing candidate, and only visited files are counted.
C8_ScanRoots ==
    (pc = "exited" /\ report.written /\ root_arg = "dir") =>
        /\ \A c \in ExistingCandidates : Count(entered, c) = 1
        /\ Count(entered, root_dir) = (IF ExistingCandidates = { } THEN 1 ELSE 0)
        /\ ExistingCandidates # { } =>
              /\ \A i \in DOMAIN visited :
                    \E c \in ExistingCandidates : IsPrefix(c, visited[i].file)
              /\ \A i \in DOMAIN errors :
                    \E c \in ExistingCandidates : IsPrefix(c, FileOf(errors[i]))
        /\ CountersMatchVisits

\* C8 witness: the run is over, a candidate was scanned and produced
\* findings, and an eligible file outside every candidate was left alone
C8_Witness ==
    /\ pc = "exited"
    /\ report.written
    /\ ExistingCandidates # { }
    /\ errors # << >>
    /\ \E f \in Files :
          /\ file_extensions(ExtOf(f)) # ""
          /\ ~ HasIgnored(f, Len(f) - 1)
          /\ \A c \in ExistingCandidates : ~ IsPrefix(c, f)
          /\ f \notin VisitedFiles

\* C9: a file is handed to a handler only if its lower-cased extension is
\* one of .ts, .js, .tsx, .jsx, and only such files are counted or have
\* findings; a .tsx/.jsx file that was read has run the React, TypeScript,
\* common and import lists, a .ts/.js file the TypeScript, common and import
\* lists, and the file's findings are exactly those of these lists; when
\* the run is over every file with such an extension in a listed directory
\* has been visited.
C9_DispatchByExtension ==
    /\ \A i \in DOMAIN visited :
          LET f == visited[i].file
              ext == ExtOf(f)
              fs == FindingsOf(f)
          IN  /\ ext \in ComponentExts \cup ScriptExts
              /\ tree[f].readable =>
                    /\ ext \in ComponentExts =>
                          visited[i].ran = << "react", "typescript", "common", "import" >>
                    /\ ext \in ScriptExts =>
                          visited[i].ran = << "typescript", "common", "import" >>
                    /\ [ j \in DOMAIN fs |-> Said(fs[j]) ] = ScanAlone[tree[f].text][ext]
    /\ exit_code # 130 => FindingFiles \subseteq PathsOf(VisitedFiles)
    /\ CountersMatchVisits
    /\ ScanCompleted =>
          \A f \in Files :
              (/\ ExtOf(f) \in ComponentExts \cup ScriptExts
               /\ \E i \in DOMAIN entered : entered[i] = SubSeq(f, 1, Len(f) - 1))
                  => f \in VisitedFiles

\* C9 witness: the run is over; a .js or .ts file with a line a React rule
\* matches was scanned and has no React finding, and a file of another
\* extension in a listed directory was not visited
C9_Witness ==
    /\ pc = "exited"
    /\ \E i \in DOMAIN visited :
          LET f == visited[i].file
          IN  /\ ExtOf(f) \in ScriptExts
              /\ tree[f].readable
              /\ \E n \in DOMAIN LinesOf(f), k \in DOMAIN react_patterns :
                    Matches(react_patterns[k], LinesOf(f)[n])
              /\ \A j \in DOMAIN errors :
                    errors[j].file = PathStr(f) =>
                        \A k \in DOMAIN react_patterns :
                            errors[j].error_type # "React - " \o react_patterns[k].name
    /\ \E f \in Files :
          /\ ExtOf(f) \notin ComponentExts \cup ScriptExts
          /\ \E i \in DOMAIN entered : entered[i] = SubSeq(f, 1, Len(f) - 1)
          /\ f \notin VisitedFiles

\* the eligible files of the scan directories that are below no ignored
\* directory
FilesToVisit ==
    { f \in Files :
        /\ ExtOf(f) \in ComponentExts \cup ScriptExts
        /\ \E c \in Range(ScanDirs) :
              /\ IsPrefix(c, f)
              /\ \A k \in (Len(c) + 1)..(Len(f) - 1) : f[k] \notin skip_dirs }

\* C10: a visited file that cannot be read has exactly one finding, of type
\* 'File Read Error', at line 0, of severity error; every visited file that
\* can be read has exactly the findings a scan of it alone yields; and a
\* run of a root directory that is not interrupted visits every eligible
\* file and reaches save_to_json, which alone can still fail it; the report
\* once written, the exit status is 0.
C10_ReadFailure ==
    /\ \A i \in DOMAIN visited :
          LET f == visited[i].file
              fs == FindingsOf(f)
          IN  IF tree[f].readable
              THEN /\ Len(fs) = Len(ScanAlone[tree[f].text][ExtOf(f)])
                   /\ \A j \in DOMAIN fs :
                         /\ Said(fs[j]) = ScanAlone[tree[f].text][ExtOf(f)][j]
                         /\ fs[j].error_type \notin SyntheticTypes
              ELSE /\ Len(fs) = 1
                   /\ fs[1].error_type = "File Read Error"
                   /\ fs[1].line = 0
                   /\ fs[1].severity = "error"
    /\ (ScanCompleted /\ root_arg = "dir") => VisitedFiles = FilesToVisit
    /\ (pc = "exited" /\ root_arg = "dir" /\ exit_code = 1) => ScanCompleted
    /\ (pc = "exited" /\ out_file = "report") => report.written /\ exit_code = 0

\* C10 witness: the run is over; a file that could not be read was visited
\* and, after it, a file that has findings
C10_Witness ==
    /\ pc = "exited"
    /\ \E i, j \in DOMAIN visited :
          /\ i < j
          /\ ~ tree[visited[i].file].readable
          /\ tree[visited[j].file].readable
          /\ FindingsOf(visited[j].file) # << >>

(***************************************************************************)
(* Properties of the statistics                                            *)
(***************************************************************************)
\* C11: a call of generate_statistics leaves the findings collection,
\* file_count and scanned_lines as they were, and two calls that saw the same
\* findings (no add_error between them) returned equal results.
C11_StatsPure ==
    /\ [][ Len(calls') > Len(calls) =>
              /\ errors' = errors
              /\ file_count' = file_count
              /\ scanned_lines' = scanned_lines
              /\ calls'[Len(calls')].seen = Len(errors') ]_vars
    /\ [](\A i \in DOMAIN calls, j \in DOMAIN calls :
             calls[i].seen = calls[j].seen => calls[i].result = calls[j].result)

\* C11 witness: the statistics of a collection of several findings were asked
\* for twice and came out equal
C11_Witness ==
    /\ Len(calls) = 2
    /\ Len(errors) >= 3
    /\ calls[1].seen = Len(errors)
    /\ calls[2].seen = Len(errors)
    /\ calls[1].result = calls[2].result
    /\ calls[1].result.total_errors = Len(errors)

\* the findings a call of generate_statistics saw
SeenBy(call) == SubSeq(errors, 1, call.seen)

KeysIn(errs, field) == { errs[i][field] : i \in DOMAIN errs }

CountKey(errs, field, k) == Cardinality({ i \in DOMAIN errs : errs[i][field] = k })

\* the position of the first finding with the key
FirstAt(errs, field, k) ==
    CHOOSE i \in DOMAIN errs :
        errs[i][field] = k /\ \A j \in 1..(i - 1) : errs[j][field] # k

\* a goes before b in the ranking: more findings, or as many and met earlier
Before(errs, field, a, b) ==
    \/ CountKey(errs, field, a) > CountKey(errs, field, b)
    \/ /\ CountKey(errs, field, a) = CountKey(errs, field, b)
       /\ FirstAt(errs, field, a) < FirstAt(errs, field, b)

Ranked(top, errs, field, n) ==
    /\ Len(top) = IF Cardinality(KeysIn(errs, field)) < n
                  THEN Cardinality(KeysIn(errs, field)) ELSE n
    /\ \A i \in DOMAIN top :
         /\ top[i].key \in KeysIn(errs, field)
         /\ top[i].count = CountKey(errs, field, top[i].key)
    /\ \A i \in DOMAIN top, j \in DOMAIN top :
         i < j => Before(errs, field, top[i].key, top[j].key)
    /\ \A k \in KeysIn(errs, field) \ { top[i].key : i \in DOMAIN top } :
         \A i \in DOMAIN top : Before(errs, field, top[i].key, k)

\* C12: in every result of generate_statistics, top_errors has min(15, number
\* of distinct rule identifiers) entries and critical_files min(10, number of
\* distinct files); each entry carries its key's count, the entries are in
\* non-increasing count order with equal counts in order of first encounter,
\* and every omitted key comes after every included one in that order.
C12_TopN ==
    \A c \in DOMAIN calls :
        /\ Ranked(calls[c].result.top_errors, SeenBy(calls[c]), "error_type", TopErrors)
        /\ Ranked(calls[c].result.critical_files, SeenBy(calls[c]), "relative_path", TopFiles)

\* a result cut at both limits, with a tie at the cut and a late key ranked first
C12_Witness ==
    /\ calls # << >>
    /\ LET r == calls[1].result
       IN  /\ Len(r.by_type) > TopErrors /\ Len(r.top_errors) = TopErrors
           /\ Len(r.by_file) > TopFiles /\ Len(r.critical_files) = TopFiles
           /\ r.top_errors[1].count = 2 /\ r.top_errors[1].key # r.by_type[1].key
           /\ r.top_errors[TopErrors].count = 1
           /\ r.critical_files[1].key # r.by_file[1].key
           /\ r.critical_files[TopFiles].count = 1

(***************************************************************************)
(* Properties of add_error                                                 *)
(***************************************************************************)
\* str(root) followed by the separator: what the name of a file under the
\* root starts with
RootPrefix == PathStr(root_dir) \o << sep >>

UnderRoot(e) == IsPrefix(RootPrefix, e.file)

\* the first segment of the root-relative path of a finding under the root
FirstSegment(e) == Split(SubSeq(e.file, Len(RootPrefix) + 1, Len(e.file)), sep)[1]

\* C13: every finding's module is the first segment of its root-relative
\* path when that is client, server, shared or src, and 'unknown' in every
\* other case, a path that is not under the root included.
C13_ModuleOfPath ==
    \A i \in DOMAIN errors :
        errors[i].module =
            IF UnderRoot(errors[i]) /\ FirstSegment(errors[i]) \in ModuleNames
            THEN FirstSegment(errors[i])
            ELSE unknown

(***************************************************************************)
(* Properties of main                                                      *)
(***************************************************************************)
\* C14: the process exits 0 exactly when the scan completed and the report
\* was written, 130 on a user interrupt, and 1 on every other fatal
\* condition: a root that does not exist or is not a valid directory, and a
\* failure to write the report.
C14_ExitStatus ==
    pc = "exited" =>
        /\ exit_code \in { 0, 1, 130 }
        /\ exit_code = 0 <=> (ScanCompleted /\ report.written /\ out_file = "report")
        /\ root_arg # "dir" => exit_code \in { 1, 130 }
        /\ (root_arg = "dir" /\ ~report.written) => exit_code \in { 1, 130 }

\* C15: an interrupt during the walk ends the run at once: the step that
\* leaves the scan without reaching save_to_json sets exit status 130, counts
\* and visits no file, leaves the output file, the report and the findings
\* already made as they were; after the exit nothing changes;
\* a run that ended before save_to_json has exit status 130, no report and an
\* untouched output file; and every finding of a synthetic type belongs to a
\* file that cannot be read, so none stands for an interrupt.
C15_InterruptAborts ==
    /\ [][ (pc \in { "scan_codebase", "scan_dirs", "walk" } /\ pc' = "exited" /\ calls' = calls) =>
              /\ exit_code' = 130
              /\ file_count' = file_count
              /\ visited' = visited
              /\ out_file' = out_file
              /\ report' = report
              /\ Len(errors') >= Len(errors)
              /\ SubSeq(errors', 1, Len(errors)) = errors ]_vars
    /\ [][ pc = "exited" => UNCHANGED vars ]_vars
    /\ []((pc = "exited" /\ root_arg \in { "dir", "file" } /\ ~ ScanCompleted) =>
             /\ exit_code = 130
             /\ out_file = "untouched"
             /\ ~ report.written)
    /\ [](\A i \in DOMAIN errors :
             errors[i].error_type \in SyntheticTypes =>
                \E f \in DOMAIN tree : PathStr(f) = errors[i].file /\ ~ tree[f].readable)

\* C15 witness: the run was interrupted inside a handler after a file had
\* been visited: the interrupted file has findings and is not counted, and
\* nothing was written
C15_Witness ==
    /\ pc = "exited"
    /\ exit_code = 130
    /\ visited # << >>
    /\ file_count = Len(visited)
    /\ ~ (FindingFiles \subseteq PathsOf(VisitedFiles))
    /\ VisitedFiles # FilesToVisit
    /\ out_file = "untouched"
    /\ ~ report.written

\* C16: if writing the report fails after the output file has been opened,
\* then at the end of the process the output path holds what it held before
\* the run (its previous content, or no file), never a truncated or partly
\* written document.
C16_WriteAtomic ==
    (pc = "exited" /\ ScanCompleted /\ ~ report.written /\ exit_code = 1) =>
        out_file = "untouched"

(***************************************************************************)
(* Properties of the rules                                                 *)
(***************************************************************************)
\* the rules whose pattern did not compile, and their identifiers
InvalidRules == { k \in DOMAIN AllPatterns : AllPatterns[k].compiled.t = "error" }

DisabledTypes == { ApiTypes[k] : k \in InvalidRules }

\* a rule list as it would be without the invalid rules
Enabled(list) == SelectSeq(list, LAMBDA p : p.compiled.t # "error")

\* what a scan of each content alone says when the lists hold only the
\* rules that compiled (evaluated once)
ScanWithoutInvalid ==
    [ id \in TextIds |->
        [ ext \in ComponentExts \cup ScriptExts |->
            SaidBy(ReadLines[id],
                   [ i \in DOMAIN ListsFor(ext) |-> Enabled(ListsFor(ext)[i]) ]) ] ]

\* C17: the rule whose pattern does not compile (useState_initial) is in its
\* list with no matcher; no finding bears its identifier; and every visited
\* file that can be read has exactly the findings the lists without that
\* rule yield.
C17_InvalidRuleLocal ==
    /\ DisabledTypes = { "React - useState_initial" }
    /\ \A i \in DOMAIN errors : errors[i].error_type \notin DisabledTypes
    /\ \A i \in DOMAIN visited :
          LET f == visited[i].file
              fs == FindingsOf(f)
          IN  tree[f].readable =>
                [ j \in DOMAIN fs |-> Said(fs[j]) ] = ScanWithoutInvalid[tree[f].text][ExtOf(f)]

\* C17 witness: a component file with a line the invalid rule was written
\* for was scanned by the React rules and has findings of them
C17_Witness ==
    /\ pc = "exited"
    /\ report.written
    /\ \E i \in DOMAIN visited :
          /\ tree[visited[i].file].readable
          /\ tree[visited[i].file].text = "react"
          /\ visited[i].ran = << "react", "typescript", "common", "import" >>
          /\ \E j \in DOMAIN errors :
                /\ errors[j].file = PathStr(visited[i].file)
                /\ errors[j].error_type = "React - dangerously_set"

\* the rules applicable to an extension, as positions of the rule table
Applicable(ext) ==
    { k \in DOMAIN AllPatterns :
        \E i \in DOMAIN ListsFor(ext) : PatternIn(AllPatterns[k], ListsFor(ext)[i]) }

\* for each content, kind of extension and line number, the identifiers of
\* the applicable enabled rules that match the line and are not suppressed
\* (evaluated once)
ExpectedAt ==
    [ id \in TextIds |->
        [ ext \in ComponentExts \cup ScriptExts |->
            [ n \in DOMAIN ReadLines[id] |->
                LET line == ReadLines[id][n]
                IN  { ApiTypes[k] :
                        k \in { j \in Applicable(ext) :
                                  /\ Len(line) <= MaxLineLength
                                  /\ Matches(AllPatterns[j], line)
                                  /\ ~ (/\ InComment(Strip(line))
                                        /\ ~ IsMarkerRule(AllPatterns[j].name)) } } ] ] ]

\* C18: for every scanned file that can be read and every line of it, each
\* enabled applicable rule that matches the line (of at most 500 characters)
\* and is not suppressed as a comment has exactly one finding with that file,
\* line and identifier, the line has as many findings as such rules and the
\* file has no finding of another line; and no file is scanned twice.
C18_OnePerMatch ==
    /\ \A i \in DOMAIN visited :
          LET f == visited[i].file
              fs == FindingsOf(f)
          IN  tree[f].readable =>
                LET expected == ExpectedAt[tree[f].text][ExtOf(f)]
                IN  /\ \A j \in DOMAIN fs : fs[j].line \in DOMAIN expected
                    /\ \A n \in DOMAIN expected :
                          /\ CountAt(fs, n) = Cardinality(expected[n])
                          /\ \A t \in expected[n] : CountOf(fs, n, t) = 1
    /\ Cardinality(VisitedFiles) = Len(visited)

\* C18 witness: a complete scan of two scan roots, with a line that has the
\* findings of two rules
C18_Witness ==
    /\ pc = "exited"
    /\ report.written
    /\ \E i, j \in DOMAIN visited :
          /\ Len(visited[i].file) >= 3
          /\ Len(visited[j].file) >= 3
          /\ visited[i].file[2] # visited[j].file[2]
          /\ tree[visited[i].file].readable
          /\ \E n \in DOMAIN LinesOf(visited[i].file) :
                CountAt(FindingsOf(visited[i].file), n) >= 2

\* a file that can be read and in which no applicable rule matches
NoMatch(f) ==
    /\ tree[f].readable
    /\ \A n \in DOMAIN ExpectedAt[tree[f].text][ExtOf(f)] :
          ExpectedAt[tree[f].text][ExtOf(f)][n] = { }

\* C19: the scan of an eligible file in which no rule matches leaves the
\* findings collection as it was (nothing appended, nothing changed or
\* reordered), adds 1 to the count of files and the file's line count to the
\* count of lines, and leaves the statistics of the findings what they were;
\* the report's per-file counts have no entry for such a file.
C19_Isolation ==
    /\ [][ (Len(visited') = Len(visited) + 1 /\ NoMatch(visited'[Len(visited')].file)) =>
              /\ errors' = errors
              /\ file_count' = file_count + 1
              /\ scanned_lines' = scanned_lines + Len(LinesOf(visited'[Len(visited')].file))
              /\ generate_statistics(errors') = generate_statistics(errors)
              /\ UNCHANGED << report, out_file, exit_code, pc >> ]_vars
    /\ [](report.written =>
             \A i \in DOMAIN visited :
                NoMatch(visited[i].file) =>
                   \A k \in DOMAIN report.statistics.by_file :
                      report.statistics.by_file[k].key #
                         RelStr(SubSeq(visited[i].file, Len(root_dir) + 1,
                                       Len(visited[i].file))))

\* C19 witness: a file without a match was scanned after a file with
\* findings, and the report written
C19_Witness ==
    /\ pc = "exited"
    /\ report.written
    /\ Len(visited) >= 2
    /\ NoMatch(visited[2].file)
    /\ Len(LinesOf(visited[2].file)) >= 1
    /\ FindingsOf(visited[1].file) # << >>
    /\ report.metadata.files_scanned = 2
    /\ Len(report.statistics.by_file) = 1

RECURSIVE SumCounts(_)
SumCounts(dict) ==
    IF dict = << >> THEN 0 ELSE Head(dict).count + SumCounts(Tail(dict))

\* a count map of the findings by a field: one entry per value of the field,
\* each with the number of findings that have it
CountsOf(dict, errs, field) ==
    /\ \A k \in DOMAIN dict :
          /\ dict[k].count >= 1
          /\ dict[k].count = CountKey(errs, field, dict[k].key)
          /\ \A l \in DOMAIN dict : dict[l].key = dict[k].key => l = k
    /\ SumCounts(dict) = Len(errs)

\* C20: in a written report, metadata.total_errors, statistics.total_errors
\* and the length of 'errors' all equal the number of findings collected;
\* each of by_severity, by_type, by_module and by_file has one entry per
\* value with a count of at least 1, the counts summing to that total; and
\* the 'errors' list holds every finding collected as often as the
\* collection does.
C20_StatsConsistent ==
    report.written =>
        /\ report.metadata.total_errors = Len(errors)
        /\ report.statistics.total_errors = Len(errors)
        /\ Len(report.errors) = Len(errors)
        /\ CountsOf(report.statistics.by_severity, errors, "severity")
        /\ CountsOf(report.statistics.by_type, errors, "error_type")
        /\ CountsOf(report.statistics.by_module, errors, "module")
        /\ CountsOf(report.statistics.by_file, errors, "relative_path")
        /\ \A i \in DOMAIN errors :
              Count(report.errors, errors[i]) = Count(errors, errors[i])

\* C20 witness: a report of findings of several severities, modules and
\* files, with a file that has more than one finding
C20_Witness ==
    /\ report.written
    /\ Len(errors) >= 3
    /\ Len(report.statistics.by_severity) >= 2
    /\ Len(report.statistics.by_module) >= 2
    /\ Len(report.statistics.by_file) >= 2
    /\ \E k \in DOMAIN report.statistics.by_file : report.statistics.by_file[k].count >= 2

====
